---- MODULE Spec2Model ----
(***************************************************************************)
(* State-machine model of SEO.py: the interactive session loop             *)
(* (SEOAuditTool.run), the credential prompt (get_api_key), the audit      *)
(* pipeline (run_audit: validation, fetch, extraction, PageSpeed call,     *)
(* console report, PDF report) and the pure helpers they use.              *)
(*                                                                         *)
(* Strings are sequences of one-character strings, so that strip(),       *)
(* startswith(), replace(), split() and len() are computed, not assumed.   *)
(***************************************************************************)
EXTENDS Integers, Sequences, FiniteSets, TLC

VARIABLES
    pc,          \* where the single thread of control is
    api_key,     \* self.api_key; <<>> models None (the code never stores "")
    everKey,     \* history: a non-empty credential has been entered
    url,         \* run_audit local: the stripped URL (kept until the next audit)
    keyword,     \* run_audit local: the stripped keyword (kept until the next audit)
    page,        \* run_audit locals soup/html_content (NoPage outside an audit)
    results,     \* run_audit local: the results dict (NoResults outside an audit)
    perf,        \* value returned by get_pagespeed_insights (NoPerf outside an audit)
    log,         \* history: the steps of the current audit, in order
    console,     \* what display_results has printed in the current audit
    pdf,         \* what generate_pdf_report has written in the current audit
    lastMsg,     \* the last status line printed by the session
    ended,       \* history: how the loop ended ("no", "exit", "interrupt")
    perfEver,    \* history: the performance endpoint has been called
    choice,      \* run() local: the last stripped menu selection
    wIn,         \* wrapping harness: the text and the budget handed to the wrapper
    wOut,        \* wrapping harness: the lines the wrapper emitted
    xHtml,       \* extraction harness: html_content, the raw body as tokens
    xSoup,       \* extraction harness: soup, the shared parsed document
    xKeyword,    \* extraction harness: the keyword of the audit
    xLast,       \* extraction harness: the extractor run last and its result
    xCounted     \* extraction harness: the keyword counter has run

vars == <<pc, api_key, everKey, url, keyword, page, results, perf, log,
          console, pdf, lastMsg, ended, perfEver, choice, wIn, wOut,
          xHtml, xSoup, xKeyword, xLast, xCounted>>

-----------------------------------------------------------------------------
(* Bounds of the model *)

\* longest sequence of JSON-LD script blocks on a modelled page
MaxBlocks == 2
\* most words in a text handed to the PDF wrapper
MaxWords == 3
\* most elements in a document handed to the extractors
MaxElems == 3

-----------------------------------------------------------------------------
(* Strings *)

SP == " "

\* the positions of s that hold a non-whitespace character
NonSpace(s) == {i \in 1..Len(s) : s[i] # SP}

Min(S) == CHOOSE x \in S : \A y \in S : x <= y
Max(S) == CHOOSE x \in S : \A y \in S : y <= x

\* str.strip(): leading and trailing whitespace removed
Strip(s) ==
    IF NonSpace(s) = {} THEN <<>>
    ELSE SubSeq(s, Min(NonSpace(s)), Max(NonSpace(s)))

\* str.startswith(p)
StartsWith(s, p) == Len(s) >= Len(p) /\ SubSeq(s, 1, Len(p)) = p

\* str.replace(old, new): every non-overlapping occurrence, left to right
RECURSIVE Replace(_, _, _)
Replace(s, old, new) ==
    IF Len(s) < Len(old) THEN s
    ELSE IF StartsWith(s, old)
         THEN new \o Replace(SubSeq(s, Len(old) + 1, Len(s)), old, new)
         ELSE <<Head(s)>> \o Replace(Tail(s), old, new)

\* the positions where a maximal run of non-whitespace characters starts
WordStarts(s) == {i \in NonSpace(s) : i = 1 \/ s[i - 1] = SP}

\* the position where the run starting at i ends
WordEnd(s, i) ==
    Min({j \in i..Len(s) : j = Len(s) \/ s[j + 1] = SP})

\* str.split(): the maximal runs of non-whitespace characters, in order
Split(s) ==
    LET starts == WordStarts(s)
        kth(k) == CHOOSE i \in starts : Cardinality({j \in starts : j < i}) = k - 1
    IN  [k \in 1..Cardinality(starts) |-> SubSeq(s, kth(k), WordEnd(s, kth(k)))]

\* ' '.join(words)
RECURSIVE Join(_)
Join(ws) ==
    IF ws = <<>> THEN <<>>
    ELSE IF Len(ws) = 1 THEN ws[1]
         ELSE ws[1] \o <<SP>> \o Join(Tail(ws))

\* the concatenation of a sequence of sequences
RECURSIVE Flatten(_)
Flatten(ss) == IF ss = <<>> THEN <<>> ELSE Head(ss) \o Flatten(Tail(ss))

\* all sequences over S of length at most n
BSeq(S, n) == UNION {[1..k -> S] : k \in 0..n}

HttpPrefix == <<"h", "t", "t", "p", ":", "/", "/">>
HttpsPrefix == <<"h", "t", "t", "p", "s", ":", "/", "/">>
WwwDot == <<"w", "w", "w", ".">>

\* a word of n copies of the character c
Word(c, n) == [i \in 1..n |-> c]

-----------------------------------------------------------------------------
(* Session inputs *)

\* lines typed at the menu prompt
ChoiceInputs ==
    { <<"1">>, <<"2">>, <<"3">>, <<"4">>, <<>>, <<SP, "2">>, <<"1", "2">> }

\* lines typed at the credential prompt
KeyInputs == { <<>>, <<SP>>, <<"k">>, <<SP, "j", SP>> }

\* lines typed at the URL prompt
UrlInputs ==
    { HttpsPrefix \o WwwDot \o <<"a", ".", "c", "/", "p">>,
      <<SP>> \o HttpPrefix \o <<"a", ".", "c">>,
      HttpsPrefix \o <<"b", ".">> \o WwwDot \o <<"a", ".", "c">>,
      WwwDot \o <<"a", ".", "c">>,
      <<"f", "t", "p", ":", "/", "/", "a", ".", "c">>,
      <<>> }

\* lines typed at the keyword prompt
KeywordInputs == { <<>>, <<SP>>, <<"s">>, <<SP, "s", SP>> }

-----------------------------------------------------------------------------
(* JSON-LD script blocks: the outcome of json.loads(script.string) *)

\* kind: "nostring" (script.string is None), "invalid" (not JSON), "scalar",
\*       "object", "array"
\* tkind: the Python type of data['@type'] ("absent" when there is no key)
JItem(kind, tkind, tval) == [kind |-> kind, tkind |-> tkind, tval |-> tval]

JBlock(kind, tkind, tval, items) ==
    [kind |-> kind, tkind |-> tkind, tval |-> tval, items |-> items]

BlockKinds ==
    { JBlock("nostring", "absent", "", <<>>),
      JBlock("invalid", "absent", "", <<>>),
      JBlock("scalar", "absent", "", <<>>),
      JBlock("object", "absent", "", <<>>),
      JBlock("object", "str", "Article", <<>>),
      JBlock("object", "num", "5", <<>>),
      JBlock("object", "list", "", <<>>),
      JBlock("array", "absent", "",
             << JItem("object", "str", "Product"),
                JItem("scalar", "absent", ""),
                JItem("object", "absent", "") >>) }

\* the values one decoded JSON-LD payload appends to schema_types
RECURSIVE ItemTypes(_)
ItemTypes(items) ==
    IF items = <<>> THEN <<>>
    ELSE LET it == Head(items)
         IN  (IF it.kind = "object" /\ it.tkind # "absent"
              THEN << [tkind |-> it.tkind, tval |-> it.tval] >>
              ELSE <<>>) \o ItemTypes(Tail(items))

BlockTypes(b) ==
    IF b.kind \in {"nostring", "invalid"} THEN <<>>
    ELSE IF b.kind = "object" /\ b.tkind # "absent"
         THEN << [tkind |-> b.tkind, tval |-> b.tval] >>
    ELSE IF b.kind = "array" THEN ItemTypes(b.items)
    ELSE <<>>

RECURSIVE CollectTypes(_)
CollectTypes(blocks) ==
    IF blocks = <<>> THEN <<>>
    ELSE BlockTypes(Head(blocks)) \o CollectTypes(Tail(blocks))

Range(f) == {f[i] : i \in DOMAIN f}

\* set(schema_types) raises TypeError on an unhashable member
Unhashable(t) == t.tkind \in {"list", "dict"}

NoSchema ==
    [raised |-> TRUE, has_schema |-> FALSE, json_ld_count |-> 0,
     microdata_count |-> 0, rdfa_count |-> 0, schema_types |-> {}]

\* check_schema_markup(soup); raised = an exception leaves the function
CheckSchema(p) ==
    LET types == CollectTypes(p.jsonld)
    IN  IF \E i \in DOMAIN types : Unhashable(types[i])
        THEN NoSchema
        ELSE [raised |-> FALSE,
              has_schema |-> Len(p.jsonld) > 0 \/ p.microdata > 0 \/ p.rdfa > 0,
              json_ld_count |-> Len(p.jsonld),
              microdata_count |-> p.microdata,
              rdfa_count |-> p.rdfa,
              schema_types |-> Range(types)]

-----------------------------------------------------------------------------
(* Fetched pages *)

\* sentinel of extract_title_tag: "No title tag found"
NoTitleText ==
    <<"N", "o", " ", "t", "i", "t", "l", "e", " ", "t", "a", "g", " ", "f", "o", "u", "n", "d">>

ShortTitle == <<"a", "b", SP, "c">>

\* a title longer than the wrapping threshold: three words, 76 characters
LongTitle == Join(<< Word("a", 30), Word("b", 34), Word("c", 10) >>)

\* the value of soup/html_content before a successful fetch (None, None)
NoPage ==
    [ok |-> FALSE, hasTitle |-> FALSE, title |-> <<>>, jsonld |-> <<>>,
     microdata |-> 0, rdfa |-> 0]

MkPage(hasTitle, title, jsonld, microdata, rdfa) ==
    [ok |-> TRUE, hasTitle |-> hasTitle, title |-> title, jsonld |-> jsonld,
     microdata |-> microdata, rdfa |-> rdfa]

\* the documents a successful fetch can return: every sequence of JSON-LD
\* blocks under a short title, and the title/microdata/RDFa variants
Pages ==
    { MkPage(TRUE, ShortTitle, j, 0, 0) : j \in BSeq(BlockKinds, MaxBlocks) }
    \cup { MkPage(TRUE, <<SP>> \o LongTitle \o <<SP>>, <<>>, 1, 0),
           MkPage(FALSE, <<>>, <<>>, 0, 1),
           MkPage(TRUE, LongTitle,
                  << JBlock("invalid", "absent", "", <<>>) >>, 1, 1) }

\* the ways session.get / raise_for_status can fail
FetchFailures == {"network_error", "timeout", "http_error", "unexpected"}

\* extract_title_tag(soup)
ExtractTitle(p) == IF p.hasTitle THEN Strip(p.title) ELSE NoTitleText

-----------------------------------------------------------------------------
(* PageSpeed Insights *)

\* the value None of get_pagespeed_insights
NoPerf == [present |-> FALSE, performance_score |-> 0, fcp |-> "", fcp_numeric |-> 0]

\* what the performance endpoint can answer.  kind:
\*   "network_error"   requests raises (connection error, timeout)
\*   "http_error"      raise_for_status raises on a non-2xx status
\*   "not_json"        response.json() raises
\*   "bad_shape"       the JSON is not an object where one is expected
\*                     (data.get / lighthouse_result.get raises AttributeError)
\*   "missing_fields"  a JSON object lacking the score, the FCP audit or both
\*   "ok"              a JSON object carrying both
\* scorePct is the fractional score times 100, truncated to an integer
PerfFailureKinds == {"network_error", "http_error", "not_json", "bad_shape"}

PerfResponses ==
    { [kind |-> k, hasScore |-> FALSE, scorePct |-> 0, hasFcp |-> FALSE]
        : k \in PerfFailureKinds }
    \cup { [kind |-> "missing_fields", hasScore |-> FALSE, scorePct |-> 0, hasFcp |-> FALSE],
           [kind |-> "missing_fields", hasScore |-> TRUE, scorePct |-> 87, hasFcp |-> FALSE],
           [kind |-> "ok", hasScore |-> TRUE, scorePct |-> 0, hasFcp |-> TRUE],
           [kind |-> "ok", hasScore |-> TRUE, scorePct |-> 87, hasFcp |-> TRUE] }

\* variant of HasKey: the credential guard is missing
HasKeyAlways(k) == TRUE

\* "if not self.api_key: return None"
HasKey(k) == k # <<>>

\* variant of PagespeedResult: the except handlers return the defaults
PagespeedResultDefaults(resp) ==
    [present |-> TRUE,
     performance_score |->
         IF resp.hasScore /\ resp.scorePct # 0 THEN resp.scorePct ELSE 0,
     fcp |-> IF resp.hasFcp THEN "display" ELSE "N/A",
     fcp_numeric |-> IF resp.hasFcp THEN 1 ELSE 0]

\* the try/except of get_pagespeed_insights: the value returned for a response
PagespeedResult(resp) ==
    IF resp.kind \in PerfFailureKinds THEN NoPerf
    ELSE [present |-> TRUE,
          performance_score |->
              IF resp.hasScore /\ resp.scorePct # 0 THEN resp.scorePct ELSE 0,
          fcp |-> IF resp.hasFcp THEN "display" ELSE "N/A",
          fcp_numeric |-> IF resp.hasFcp THEN 1 ELSE 0]

-----------------------------------------------------------------------------
(* run_audit helpers *)

\* url.startswith(('http://', 'https://'))
ValidUrl(u) == StartsWith(u, HttpPrefix) \/ StartsWith(u, HttpsPrefix)

\* variant of ValidKeyword: the emptiness check is missing
ValidKeywordAny(k) == TRUE

\* "if not keyword"
ValidKeyword(k) == k # <<>>

\* the characters that end the network location of a URL
NetlocEnd == {"/", "?", "#"}

RECURSIVE UpToDelim(_)
UpToDelim(s) ==
    IF s = <<>> \/ Head(s) \in NetlocEnd THEN <<>>
    ELSE <<Head(s)>> \o UpToDelim(Tail(s))

\* urlparse(url).netloc of a URL that passed ValidUrl
Netloc(u) ==
    IF StartsWith(u, HttpsPrefix)
    THEN UpToDelim(SubSeq(u, Len(HttpsPrefix) + 1, Len(u)))
    ELSE IF StartsWith(u, HttpPrefix)
         THEN UpToDelim(SubSeq(u, Len(HttpPrefix) + 1, Len(u)))
         ELSE <<>>

\* domain = urlparse(url).netloc.replace('www.', '')
Domain(u) == Replace(Netloc(u), WwwDot, <<>>)

\* f"SEO_Audit_Report_{domain}.pdf"
PdfFilename(domain) ==
    [prefix |-> "SEO_Audit_Report_", domain |-> domain, suffix |-> ".pdf"]

\* variant of AfterFetch: the "if not soup" check is missing
AfterFetchUnchecked(p) == "analyze"

\* "soup, html_content = self.get_page_content(url); if not soup: return"
AfterFetch(p) == IF p.ok THEN "analyze" ELSE "menu"

NoResults ==
    [assembled |-> FALSE, url |-> <<>>, keyword |-> <<>>, domain |-> <<>>,
     title_tag |-> <<>>, schema_analysis |-> NoSchema, pagespeed_data |-> NoPerf]

\* the results dict of run_audit
Assemble(u, k, p, ps) ==
    [assembled |-> TRUE, url |-> u, keyword |-> k, domain |-> Domain(u),
     title_tag |-> ExtractTitle(p), schema_analysis |-> CheckSchema(p),
     pagespeed_data |-> ps]

-----------------------------------------------------------------------------
(* Presenters *)

\* ', '.join(schema['schema_types']) raises TypeError on a non-string member
DisplayRaises(r) ==
    r.schema_analysis.has_schema
    /\ \E t \in r.schema_analysis.schema_types : t.tkind # "str"

\* the PageSpeed line of display_results
ConsolePerfLine(r) == IF r.pagespeed_data.present THEN "score" ELSE "not_available"

NoConsole == [state |-> "none", perfLine |-> "none"]

\* character budgets and thresholds of the manual wrapping
TitleThreshold == 70
TitleBudget == 65
H1Threshold == 60
H1Budget == 55

\* variant of WrapLoop: the test looks at the line without the next word
RECURSIVE WrapLoopLineOnly(_, _, _, _)
WrapLoopLineOnly(words, line, out, budget) ==
    IF words = <<>>
    THEN (IF Strip(line) # <<>> THEN Append(out, Strip(line)) ELSE out)
    ELSE LET word == Head(words)
         IN  IF Len(line) < budget
             THEN WrapLoopLineOnly(Tail(words), line \o word \o <<SP>>, out, budget)
             ELSE WrapLoopLineOnly(Tail(words), word \o <<SP>>,
                                   Append(out, Strip(line)), budget)

\* the word loop of the PDF presenter: line keeps a trailing space, a line is
\* flushed (stripped) when the next word does not fit
RECURSIVE WrapLoop(_, _, _, _)
WrapLoop(words, line, out, budget) ==
    IF words = <<>>
    THEN (IF Strip(line) # <<>> THEN Append(out, Strip(line)) ELSE out)
    ELSE LET word == Head(words)
         IN  IF Len(line \o word) < budget
             THEN WrapLoop(Tail(words), line \o word \o <<SP>>, out, budget)
             ELSE WrapLoop(Tail(words), word \o <<SP>>,
                           Append(out, Strip(line)), budget)

\* the cells written for one long value: wrapped when over the threshold
PdfTextLines(text, threshold, budget) ==
    IF Len(text) > threshold
    THEN WrapLoop(Split(text), <<>>, <<>>, budget)
    ELSE <<text>>

\* the PageSpeed block of generate_pdf_report
PdfPerfBlock(r) == IF r.pagespeed_data.present THEN "score" ELSE "not_available"

NoPdf ==
    [attempted |-> FALSE, raised |-> FALSE, written |-> FALSE,
     filename |-> PdfFilename(<<>>), titleLines |-> <<>>, perfBlock |-> "none"]

\* generate_pdf_report(results, filename); raises = an exception inside the try
GeneratePdf(r, filename, raises) ==
    IF raises
    THEN [NoPdf EXCEPT !.attempted = TRUE, !.raised = TRUE]
    ELSE [attempted |-> TRUE, raised |-> FALSE, written |-> TRUE,
          filename |-> filename,
          titleLines |-> PdfTextLines(r.title_tag, TitleThreshold, TitleBudget),
          perfBlock |-> PdfPerfBlock(r)]

\* variant of PdfStatus: the return value of generate_pdf_report is ignored
PdfStatusIgnored(returned) == "success"

\* the status line run_audit prints after generate_pdf_report returns
PdfStatus(returned) == IF returned THEN "success" ELSE "pdf_failed"

-----------------------------------------------------------------------------
(* Documents and the extractors *)

\* an element of the parsed document.  text is its text content; name is the
\* name attribute of a meta element; hasAttr/attr are the content attribute
\* of a meta element or the alt attribute of an img element; ld marks a
\* script of type application/ld+json and block is what json.loads makes of
\* its string; mark is "itemscope", "typeof" or "" (neither attribute)
Elem(tag, text, name, hasAttr, attr, ld, block, mark) ==
    [tag |-> tag, text |-> text, name |-> name, hasAttr |-> hasAttr,
     attr |-> attr, ld |-> ld, block |-> block, mark |-> mark]

NoBlock == JBlock("nostring", "absent", "", <<>>)

\* elements without an end tag
VoidTags == {"meta", "img"}

\* the raw body of an element: start tag, text, end tag
Serialize(e) ==
    << [k |-> "open", el |-> [e EXCEPT !.text = <<>>], chars |-> <<>>] >>
    \o (IF e.text # <<>> /\ e.tag \notin VoidTags
        THEN << [k |-> "text", el |-> [e EXCEPT !.text = <<>>], chars |-> e.text] >>
        ELSE <<>>)
    \o (IF e.tag \notin VoidTags
        THEN << [k |-> "close", el |-> [e EXCEPT !.text = <<>>], chars |-> <<>>] >>
        ELSE <<>>)

\* response.text of a page made of the elements es
RECURSIVE SerializeAll(_)
SerializeAll(es) ==
    IF es = <<>> THEN <<>> ELSE Serialize(Head(es)) \o SerializeAll(Tail(es))

\* BeautifulSoup(html, 'html.parser'): a fresh tree, one element per start
\* tag, with the text that follows the start tag
Parse(html) ==
    LET opens == {i \in DOMAIN html : html[i].k = "open"}
        kth(n) == CHOOSE i \in opens : Cardinality({j \in opens : j < i}) = n - 1
        textAt(i) == IF i + 1 <= Len(html) /\ html[i + 1].k = "text"
                     THEN html[i + 1].chars ELSE <<>>
    IN  [n \in 1..Cardinality(opens) |->
            [html[kth(n)].el EXCEPT !.text = textAt(kth(n))]]

\* sentinel of extract_meta_description: "No meta description found"
NoMetaText ==
    <<"N", "o", " ", "m", "e", "t", "a", " ", "d", "e", "s", "c", "r", "i", "p", "t", "i", "o", "n", " ", "f", "o", "u", "n", "d">>

IsTitle(e) == e.tag = "title"
IsMetaDescription(e) == e.tag = "meta" /\ e.name = "description"
IsH1(e) == e.tag = "h1"
IsHeading(e) == e.tag \in {"h1", "h2", "h3", "h4", "h5", "h6"}
IsImg(e) == e.tag = "img"
IsJsonLd(e) == e.tag = "script" /\ e.ld
IsVisible(e) == e.tag \notin {"script", "style"}

\* the document as the title and schema extractors read it
SoupPage(soup) ==
    MkPage(SelectSeq(soup, IsTitle) # <<>>,
           IF SelectSeq(soup, IsTitle) # <<>>
           THEN SelectSeq(soup, IsTitle)[1].text ELSE <<>>,
           [i \in DOMAIN SelectSeq(soup, IsJsonLd) |->
               SelectSeq(soup, IsJsonLd)[i].block],
           Cardinality({i \in DOMAIN soup : soup[i].mark = "itemscope"}),
           Cardinality({i \in DOMAIN soup : soup[i].mark = "typeof"}))

\* extract_meta_description(soup)
ExtractMetaDescription(soup) ==
    LET metas == SelectSeq(soup, IsMetaDescription)
    IN  IF metas # <<>> /\ metas[1].hasAttr /\ metas[1].attr # <<>>
        THEN Strip(metas[1].attr)
        ELSE NoMetaText

\* str.lower() on the characters of the model
Lower(c) == IF c = "S" THEN "s" ELSE IF c = "E" THEN "e" ELSE c
LowerStr(s) == [i \in DOMAIN s |-> Lower(s[i])]

\* str.count(sub): the non-overlapping occurrences, left to right
RECURSIVE CountSub(_, _)
CountSub(s, sub) ==
    IF sub = <<>> \/ Len(s) < Len(sub) THEN 0
    ELSE IF StartsWith(s, sub)
         THEN 1 + CountSub(SubSeq(s, Len(sub) + 1, Len(s)), sub)
         ELSE CountSub(Tail(s), sub)

\* soup.get_text(): the text of the elements, one after the other
RECURSIVE GetText(_)
GetText(soup) ==
    IF soup = <<>> THEN <<>> ELSE Head(soup).text \o GetText(Tail(soup))

\* "for script in soup(['script', 'style']): script.decompose()"
RemoveScriptStyle(soup) == SelectSeq(soup, IsVisible)

ZeroFrequency == [total |-> 0, title |-> 0, headings |-> 0, body |-> 0]

\* calculate_keyword_frequency(html_content, keyword)
CalcKeywordFrequency(html, kw) ==
    IF html = <<>> \/ kw = <<>> THEN ZeroFrequency
    ELSE LET work == RemoveScriptStyle(Parse(html))
             k == LowerStr(kw)
             total == CountSub(LowerStr(GetText(work)), k)
             titles == SelectSeq(work, IsTitle)
             title == IF titles # <<>>
                      THEN CountSub(LowerStr(titles[1].text), k) ELSE 0
             heads == SelectSeq(work, IsHeading)
             headings ==
                 CountSub(Join([i \in DOMAIN heads |-> LowerStr(heads[i].text)]), k)
         IN  [total |-> total, title |-> title, headings |-> headings,
              body |-> IF total - title - headings > 0
                       THEN total - title - headings ELSE 0]

\* variant of SoupAfterKeywordCount: the subtrees are removed from the
\* shared document instead of a fresh parse
SoupDecomposedInPlace(soup, html) == RemoveScriptStyle(soup)

\* the shared document after calculate_keyword_frequency returns: the
\* function parses html_content again and never touches soup
SoupAfterKeywordCount(soup, html) == soup

WarningText ==
    "Warning | It is generally recommended to only use one H1 Tag on a page."

\* variant of H1Status: any H1 at all counts as good
H1StatusAnyIsGood(n) == IF n >= 1 THEN "Good" ELSE "Missing"

\* the status expression of analyze_h1_tags
H1Status(n) ==
    IF n = 1 THEN "Good" ELSE IF n > 1 THEN WarningText ELSE "Missing"

\* analyze_h1_tags(soup)
AnalyzeH1(soup) ==
    LET h1s == SelectSeq(soup, IsH1)
    IN  [count |-> Len(h1s),
         texts |-> [i \in DOMAIN h1s |-> Strip(h1s[i].text)],
         status |-> H1Status(Len(h1s))]

\* img.get('alt', '').strip() is empty
MissingAlt(e) == ~e.hasAttr \/ Strip(e.attr) = <<>>

\* analyze_images(soup, base_url)
AnalyzeImages(soup) ==
    LET imgs == SelectSeq(soup, IsImg)
        missing == Cardinality({i \in DOMAIN imgs : MissingAlt(imgs[i])})
    IN  [total_images |-> Len(imgs), missing_alt |-> missing,
         with_alt |-> Len(imgs) - missing]

\* nothing has been extracted yet
NoLast == [fn |-> "none", val |-> <<>>]

-----------------------------------------------------------------------------
(* The session: SEOAuditTool.run and the operations it dispatches to *)

NoWrapIn == [text |-> <<>>, threshold |-> 0, budget |-> 0]

Init ==
    /\ pc = "menu"
    /\ api_key = <<>>
    /\ everKey = FALSE
    /\ url = <<>>
    /\ keyword = <<>>
    /\ page = NoPage
    /\ results = NoResults
    /\ perf = NoPerf
    /\ log = <<>>
    /\ console = NoConsole
    /\ pdf = NoPdf
    /\ lastMsg = "welcome"
    /\ ended = "no"
    /\ perfEver = FALSE
    /\ choice = <<>>
    /\ wIn = NoWrapIn
    /\ wOut = <<>>
    /\ xHtml = <<>>
    /\ xSoup = <<>>
    /\ xKeyword = <<>>
    /\ xLast = NoLast
    /\ xCounted = FALSE

xVars == <<xHtml, xSoup, xKeyword, xLast, xCounted>>
wrapVars == <<wIn, wOut, xVars>>
auditVars == <<url, keyword, page, results, perf, log, console, pdf>>
outVars == <<url, keyword, log, console, pdf>>

\* run_audit returns (or the process ends): its frame is gone
DropLocals ==
    /\ page' = NoPage
    /\ results' = NoResults
    /\ perf' = NoPerf
keyVars == <<api_key, everKey>>

\* variant of Dispatch: an unknown selection leaves the loop
DispatchExitOnInvalid(c) ==
    IF c = <<"1">> THEN "apikey"
    ELSE IF c = <<"2">> THEN "url"
    ELSE "terminated"

\* the if/elif chain of run(): where a stripped selection leads
Dispatch(c) ==
    IF c = <<"1">> THEN "apikey"
    ELSE IF c = <<"2">> THEN "url"
    ELSE IF c = <<"3">> THEN "terminated"
    ELSE "menu"

\* choice '1': self.get_api_key() is entered
ChooseApiKey ==
    /\ pc = "menu"
    /\ \E raw \in ChoiceInputs :
         /\ Dispatch(Strip(raw)) = "apikey"
         /\ choice' = Strip(raw)
    /\ pc' = "apikey"
    /\ lastMsg' = "key_header"
    /\ UNCHANGED <<keyVars, auditVars, ended, perfEver, wrapVars>>

\* choice '2': self.run_audit() is entered with fresh locals
ChooseAudit ==
    /\ pc = "menu"
    /\ \E raw \in ChoiceInputs :
         /\ Dispatch(Strip(raw)) = "url"
         /\ choice' = Strip(raw)
    /\ pc' = "url"
    /\ url' = <<>>
    /\ keyword' = <<>>
    /\ page' = NoPage
    /\ results' = NoResults
    /\ perf' = NoPerf
    /\ log' = <<>>
    /\ console' = NoConsole
    /\ pdf' = NoPdf
    /\ lastMsg' = "audit_header"
    /\ UNCHANGED <<keyVars, ended, perfEver, wrapVars>>

\* choice '3': the farewell is printed and the loop breaks
ChooseExit ==
    /\ pc = "menu"
    /\ \E raw \in ChoiceInputs :
         /\ Dispatch(Strip(raw)) = "terminated"
         /\ choice' = Strip(raw)
    /\ pc' = "terminated"
    /\ ended' = "exit"
    /\ lastMsg' = "farewell"
    /\ UNCHANGED <<keyVars, auditVars, perfEver, wrapVars>>

\* any other selection: "Invalid option", the menu is shown again
InvalidChoice ==
    /\ pc = "menu"
    /\ \E raw \in ChoiceInputs :
         /\ Dispatch(Strip(raw)) = "menu"
         /\ choice' = Strip(raw)
    /\ pc' = "menu"
    /\ lastMsg' = "invalid_option"
    /\ UNCHANGED <<keyVars, auditVars, ended, perfEver, wrapVars>>

\* variant of StoreKey: the entered line is stored without the "if api_key"
StoreKeyAlways(held, entered) == entered

\* "if api_key: self.api_key = api_key": the credential held after the prompt
StoreKey(held, entered) == IF entered # <<>> THEN entered ELSE held

\* get_api_key()
GetApiKey ==
    /\ pc = "apikey"
    /\ \E raw \in KeyInputs :
         LET entered == Strip(raw)
         IN  /\ api_key' = StoreKey(api_key, entered)
             /\ everKey' = (everKey \/ entered # <<>>)
             /\ lastMsg' = IF entered # <<>> THEN "key_saved" ELSE "no_key"
    /\ pc' = "menu"
    /\ UNCHANGED <<auditVars, ended, perfEver, choice, wrapVars>>

\* run_audit: the URL prompt and its validation
EnterUrl ==
    /\ pc = "url"
    /\ \E raw \in UrlInputs :
         LET u == Strip(raw)
         IN  /\ url' = u
             /\ IF ValidUrl(u)
                THEN pc' = "keyword" /\ UNCHANGED lastMsg
                ELSE pc' = "menu" /\ lastMsg' = "invalid_url"
    /\ UNCHANGED <<keyVars, keyword, page, results, perf, log, console, pdf,
                   ended, perfEver, choice, wrapVars>>

\* run_audit: the keyword prompt and its validation
EnterKeyword ==
    /\ pc = "keyword"
    /\ \E raw \in KeywordInputs :
         LET k == Strip(raw)
         IN  /\ keyword' = k
             /\ IF ValidKeyword(k)
                THEN pc' = "fetch" /\ UNCHANGED lastMsg
                ELSE pc' = "menu" /\ lastMsg' = "empty_keyword"
    /\ UNCHANGED <<keyVars, url, page, results, perf, log, console, pdf,
                   ended, perfEver, choice, wrapVars>>

\* get_page_content(url) succeeds: one GET, a parsed document
FetchOk ==
    /\ pc = "fetch"
    /\ \E p \in Pages :
         /\ page' = p
         /\ pc' = AfterFetch(p)
    /\ log' = Append(log, "fetch")
    /\ UNCHANGED <<keyVars, url, keyword, results, perf, console, pdf, lastMsg,
                   ended, perfEver, choice, wrapVars>>

\* get_page_content(url) fails: the error is printed, (None, None) returned
FetchFail ==
    /\ pc = "fetch"
    /\ \E f \in FetchFailures : lastMsg' = "fetch_error"
    /\ pc' = AfterFetch(NoPage)
    /\ log' = Append(log, "fetch")
    /\ UNCHANGED <<keyVars, url, keyword, page, results, perf, console, pdf,
                   ended, perfEver, choice, wrapVars>>

\* the extractor calls of the results dict (lines 302-307); an exception
\* leaving one of them is caught by the session loop
Analyze ==
    /\ pc = "analyze"
    /\ log' = Append(log, "extract")
    /\ IF ~page.ok \/ CheckSchema(page).raised
       THEN pc' = "menu" /\ lastMsg' = "error_occurred" /\ DropLocals
       ELSE pc' = "pagespeed" /\ UNCHANGED <<lastMsg, page, results, perf>>
    /\ UNCHANGED <<keyVars, url, keyword, console, pdf,
                   ended, perfEver, choice, wrapVars>>

\* get_pagespeed_insights(url) without a credential: None, no request
PageSpeedSkip ==
    /\ pc = "pagespeed"
    /\ ~HasKey(api_key)
    /\ perf' = NoPerf
    /\ results' = Assemble(url, keyword, page, NoPerf)
    /\ pc' = "display"
    /\ UNCHANGED <<keyVars, url, keyword, page, log, console, pdf, lastMsg,
                   ended, perfEver, choice, wrapVars>>

\* get_pagespeed_insights(url) with a credential: one request
PageSpeedCall ==
    /\ pc = "pagespeed"
    /\ HasKey(api_key)
    /\ \E resp \in PerfResponses :
         /\ perf' = PagespeedResult(resp)
         /\ results' = Assemble(url, keyword, page, PagespeedResult(resp))
         /\ log' = Append(log, "perf_" \o resp.kind)
    /\ perfEver' = TRUE
    /\ pc' = "display"
    /\ UNCHANGED <<keyVars, url, keyword, page, console, pdf, lastMsg,
                   ended, choice, wrapVars>>

\* display_results(results)
Display ==
    /\ pc = "display"
    /\ log' = Append(log, "display")
    /\ IF DisplayRaises(results)
       THEN /\ console' = [state |-> "partial", perfLine |-> "none"]
            /\ pc' = "menu"
            /\ lastMsg' = "error_occurred"
            /\ DropLocals
       ELSE /\ console' = [state |-> "full", perfLine |-> ConsolePerfLine(results)]
            /\ pc' = "pdf"
            /\ UNCHANGED <<lastMsg, page, results, perf>>
    /\ UNCHANGED <<keyVars, url, keyword, pdf,
                   ended, perfEver, choice, wrapVars>>

\* generate_pdf_report(results, pdf_filename) and the status line after it
WritePdf ==
    /\ pc = "pdf"
    /\ \E raises \in BOOLEAN :
         LET out == GeneratePdf(results, PdfFilename(results.domain), raises)
         IN  /\ pdf' = out
             /\ lastMsg' = PdfStatus(out.written)
    /\ log' = Append(log, "pdf")
    /\ pc' = "pause"
    /\ UNCHANGED <<keyVars, url, keyword, page, results, perf, console,
                   ended, perfEver, choice, wrapVars>>

\* input("Press Enter to return to main menu...")
Pause ==
    /\ pc = "pause"
    /\ pc' = "menu"
    /\ DropLocals
    /\ UNCHANGED <<keyVars, outVars, lastMsg, ended, perfEver, choice, wrapVars>>

\* the prompts of the session
Prompts == {"menu", "apikey", "url", "keyword", "pause"}

\* input() raises EOFError: caught by "except Exception" of the loop
InputEOF ==
    /\ pc \in Prompts
    /\ pc' = "menu"
    /\ lastMsg' = "error_occurred"
    /\ DropLocals
    /\ UNCHANGED <<keyVars, outVars, ended, perfEver, choice, wrapVars>>

\* the states of the loop (everything but the harness and the end)
Running ==
    {"menu", "apikey", "url", "keyword", "fetch", "analyze", "pagespeed",
     "display", "pdf", "pause"}

\* KeyboardInterrupt: no handler below run() catches it, the loop breaks
Interrupt ==
    /\ pc \in Running
    /\ pc' = "terminated"
    /\ ended' = "interrupt"
    /\ lastMsg' = "goodbye"
    /\ DropLocals
    /\ UNCHANGED <<keyVars, outVars, perfEver, choice, wrapVars>>

Next ==
    \/ ChooseApiKey
    \/ ChooseAudit
    \/ ChooseExit
    \/ InvalidChoice
    \/ GetApiKey
    \/ EnterUrl
    \/ EnterKeyword
    \/ FetchOk
    \/ FetchFail
    \/ Analyze
    \/ PageSpeedSkip
    \/ PageSpeedCall
    \/ Display
    \/ WritePdf
    \/ Pause
    \/ InputEOF
    \/ Interrupt

Spec == Init /\ [][Next]_vars

-----------------------------------------------------------------------------
(* The PDF wrapping on its own: every text of up to MaxWords words *)

\* word lengths around the two budgets
WordLens == {1, 23, 24, 30, 33, 34, 64, 65, 66}

\* the i-th word of a text is made of the i-th letter
Letters == <<"a", "b", "c", "d", "e">>

\* a stripped text: the words joined by gap spaces
RECURSIVE JoinGap(_, _)
JoinGap(ws, gap) ==
    IF ws = <<>> THEN <<>>
    ELSE IF Len(ws) = 1 THEN ws[1]
         ELSE ws[1] \o Word(SP, gap) \o JoinGap(Tail(ws), gap)

WrapTexts ==
    { JoinGap([i \in DOMAIN lens |-> Word(Letters[i], lens[i])], gap) :
        lens \in BSeq(WordLens, MaxWords), gap \in {1, 2} }

InitWrap ==
    /\ pc = "wrap"
    /\ wIn \in { [text |-> t, threshold |-> TitleThreshold, budget |-> TitleBudget]
                   : t \in WrapTexts }
            \cup { [text |-> t, threshold |-> H1Threshold, budget |-> H1Budget]
                   : t \in WrapTexts }
    /\ wOut = <<>>
    /\ xHtml = <<>>
    /\ xSoup = <<>>
    /\ xKeyword = <<>>
    /\ xLast = NoLast
    /\ xCounted = FALSE
    /\ api_key = <<>>
    /\ everKey = FALSE
    /\ url = <<>>
    /\ keyword = <<>>
    /\ page = NoPage
    /\ results = NoResults
    /\ perf = NoPerf
    /\ log = <<>>
    /\ console = NoConsole
    /\ pdf = NoPdf
    /\ lastMsg = "welcome"
    /\ ended = "no"
    /\ perfEver = FALSE
    /\ choice = <<>>

\* the title / meta description cells (lines 427-442, 453-468)
WrapTitle ==
    /\ pc = "wrap"
    /\ wIn.budget = TitleBudget
    /\ wOut' = PdfTextLines(wIn.text, TitleThreshold, TitleBudget)
    /\ pc' = "wrapped"
    /\ UNCHANGED <<keyVars, auditVars, lastMsg, ended, perfEver, choice, wIn, xVars>>

\* the cells of one H1 text (lines 496-511)
WrapH1 ==
    /\ pc = "wrap"
    /\ wIn.budget = H1Budget
    /\ wOut' = PdfTextLines(wIn.text, H1Threshold, H1Budget)
    /\ pc' = "wrapped"
    /\ UNCHANGED <<keyVars, auditVars, lastMsg, ended, perfEver, choice, wIn, xVars>>

NextWrap == WrapTitle \/ WrapH1

SpecWrap == InitWrap /\ [][NextWrap]_vars

-----------------------------------------------------------------------------
(* The extractors on their own: every document of up to MaxElems elements *)

\* the elements documents are made of
CoreKinds ==
    { Elem("title", <<"S", "e">>, "", FALSE, <<>>, FALSE, NoBlock, ""),
      Elem("h1", <<SP, "s", SP>>, "", FALSE, <<>>, FALSE, NoBlock, ""),
      Elem("h1", <<"e">>, "", FALSE, <<>>, FALSE, NoBlock, "typeof"),
      Elem("h2", <<"s", "e">>, "", FALSE, <<>>, FALSE, NoBlock, ""),
      Elem("p", <<"s", "S", "e">>, "", FALSE, <<>>, FALSE, NoBlock, "itemscope"),
      Elem("script", <<"s", "e">>, "", FALSE, <<>>, TRUE,
           JBlock("object", "str", "Article", <<>>), ""),
      Elem("style", <<"s">>, "", FALSE, <<>>, FALSE, NoBlock, ""),
      Elem("img", <<>>, "", FALSE, <<>>, FALSE, NoBlock, ""),
      Elem("img", <<>>, "", TRUE, <<"a">>, FALSE, NoBlock, "") }

\* the meta elements, a JSON-LD script check_schema_markup raises on, an
\* img with a blank alt: each put in front of at most one other element
ExtraKinds ==
    { Elem("meta", <<>>, "description", FALSE, <<>>, FALSE, NoBlock, ""),
      Elem("meta", <<>>, "description", TRUE, <<>>, FALSE, NoBlock, ""),
      Elem("meta", <<>>, "description", TRUE, <<SP, SP>>, FALSE, NoBlock, ""),
      Elem("meta", <<>>, "description", TRUE, <<SP, "s", "e", SP>>, FALSE, NoBlock, ""),
      Elem("meta", <<>>, "keywords", TRUE, <<"o">>, FALSE, NoBlock, ""),
      Elem("script", <<"e">>, "", FALSE, <<>>, TRUE,
           JBlock("object", "list", "", <<>>), ""),
      Elem("img", <<>>, "", TRUE, <<SP>>, FALSE, NoBlock, "") }

Docs ==
    BSeq(CoreKinds, MaxElems)
    \cup { <<x>> \o d : x \in ExtraKinds, d \in BSeq(CoreKinds \cup ExtraKinds, 1) }

\* the extractor sees the keyword as the user typed it
ExtractKeywords == { <<"S">>, <<"s", "e">> }

\* get_page_content hands back the parsed document and the raw body
InitExtract ==
    /\ pc = "extract"
    /\ \E d \in Docs :
        /\ xHtml = SerializeAll(d)
        /\ xSoup = Parse(SerializeAll(d))
    /\ xKeyword \in ExtractKeywords
    /\ xLast = NoLast
    /\ xCounted = FALSE
    /\ wIn = NoWrapIn
    /\ wOut = <<>>
    /\ api_key = <<>>
    /\ everKey = FALSE
    /\ url = <<>>
    /\ keyword = <<>>
    /\ page = NoPage
    /\ results = NoResults
    /\ perf = NoPerf
    /\ log = <<>>
    /\ console = NoConsole
    /\ pdf = NoPdf
    /\ lastMsg = "welcome"
    /\ ended = "no"
    /\ perfEver = FALSE
    /\ choice = <<>>

restVars == <<keyVars, auditVars, lastMsg, ended, perfEver, choice, wIn, wOut>>

\* extract_title_tag(soup) and extract_meta_description(soup)
RunTitleMeta ==
    /\ pc = "extract"
    /\ xLast' = [fn |-> "title_meta",
                 val |-> [title_tag |-> ExtractTitle(SoupPage(xSoup)),
                          meta_description |-> ExtractMetaDescription(xSoup)]]
    /\ UNCHANGED <<pc, xHtml, xSoup, xKeyword, xCounted, restVars>>

\* calculate_keyword_frequency(html_content, keyword)
RunKeywordFrequency ==
    /\ pc = "extract"
    /\ xLast' = [fn |-> "keyword_frequency",
                 val |-> CalcKeywordFrequency(xHtml, xKeyword)]
    /\ xSoup' = SoupAfterKeywordCount(xSoup, xHtml)
    /\ xCounted' = TRUE
    /\ UNCHANGED <<pc, xHtml, xKeyword, restVars>>

\* analyze_h1_tags(soup)
RunH1 ==
    /\ pc = "extract"
    /\ xLast' = [fn |-> "h1_analysis", val |-> AnalyzeH1(xSoup)]
    /\ UNCHANGED <<pc, xHtml, xSoup, xKeyword, xCounted, restVars>>

\* analyze_images(soup, url)
RunImages ==
    /\ pc = "extract"
    /\ xLast' = [fn |-> "image_analysis", val |-> AnalyzeImages(xSoup)]
    /\ UNCHANGED <<pc, xHtml, xSoup, xKeyword, xCounted, restVars>>

\* check_schema_markup(soup)
RunSchema ==
    /\ pc = "extract"
    /\ xLast' = [fn |-> "schema_analysis", val |-> CheckSchema(SoupPage(xSoup))]
    /\ UNCHANGED <<pc, xHtml, xSoup, xKeyword, xCounted, restVars>>

NextExtract ==
    RunTitleMeta \/ RunKeywordFrequency \/ RunH1 \/ RunImages \/ RunSchema

SpecExtract == InitExtract /\ [][NextExtract]_vars

-----------------------------------------------------------------------------
(* Properties *)

\* the steps of an audit after its two prompts
AfterPrompts == {"fetch", "analyze", "pagespeed", "display", "pdf", "pause"}

\* the log entries a call of the performance endpoint leaves
PerfEvents ==
    {"perf_" \o k : k \in PerfFailureKinds \cup {"missing_fields", "ok"}}

InLog(e) == \E i \in DOMAIN log : log[i] = e

\* C1: as long as no non-empty credential has been entered, no request to the
\* performance endpoint is ever made, get_pagespeed_insights returns None in
\* every audit, and a displayed console report and a written PDF both say
\* that performance data is not available.
C1_NoCredentialNoPerformance ==
    ~everKey =>
        /\ api_key = <<>>
        /\ ~perfEver
        /\ \A i \in DOMAIN log : log[i] \notin PerfEvents
        /\ ~perf.present
        /\ ~results.pagespeed_data.present
        /\ (console.state = "full" => console.perfLine = "not_available")
        /\ (pdf.written => pdf.perfBlock = "not_available")

C1_Witness ==
    /\ ~everKey
    /\ pc = "pause"
    /\ console.state = "full"
    /\ pdf.written
    /\ results.assembled

\* the URL declares an http or https scheme
HasHttpScheme(u) ==
    \/ (Len(u) >= 7 /\ SubSeq(u, 1, 7) = HttpPrefix)
    \/ (Len(u) >= 8 /\ SubSeq(u, 1, 8) = HttpsPrefix)

\* C2: run_audit validates before any network call: with a URL that has no
\* http/https scheme, or a keyword that is empty after trimming, nothing of
\* the audit has run (no fetch, no performance call, no report, no PDF), the
\* audit never gets past its prompts, and an audit that came back to the menu
\* without a step did so with the matching error printed.
C2_ValidationPrecedesNetwork ==
    /\ (~HasHttpScheme(url) \/ keyword = <<>>) =>
           /\ log = <<>>
           /\ console = NoConsole
           /\ pdf = NoPdf
           /\ pc \notin AfterPrompts
    /\ (pc = "keyword" => HasHttpScheme(url))
    /\ (lastMsg = "invalid_url" => pc = "menu" /\ ~HasHttpScheme(url))
    /\ (lastMsg = "empty_keyword" =>
           pc = "menu" /\ HasHttpScheme(url) /\ keyword = <<>>)
    /\ (pc = "menu" /\ choice = <<"2">> /\ log = <<>>
          /\ lastMsg # "error_occurred") =>
           lastMsg \in {"invalid_url", "empty_keyword"}

C2_Witness ==
    /\ pc = "menu"
    /\ lastMsg = "empty_keyword"
    /\ HasHttpScheme(url)
    /\ everKey

\* the number of entries e in the log
Count(e) == Cardinality({i \in DOMAIN log : log[i] = e})

\* C3: a failed page fetch aborts the audit after one attempt: the session
\* is back at the menu, the log holds the single fetch and nothing else (no
\* extractor, no performance call), nothing was displayed and no PDF was
\* written; no audit fetches twice, and the later steps only ever run on a
\* fetched page.
C3_FetchFailureAborts ==
    /\ (lastMsg = "fetch_error" =>
           /\ pc = "menu"
           /\ log = <<"fetch">>
           /\ console = NoConsole
           /\ pdf = NoPdf
           /\ ~results.assembled)
    /\ Count("fetch") <= 1
    /\ (pc \in {"analyze", "pagespeed", "display", "pdf", "pause"} => page.ok)
    /\ (InLog("extract") => log[1] = "fetch")

C3_Witness ==
    /\ lastMsg = "fetch_error"
    /\ pc = "menu"
    /\ api_key # <<>>

\* the performance call of the current audit ended in one of these ways
PerfCallEnded(kinds) == \E k \in kinds : InLog("perf_" \o k)

\* the steps of an audit from the console report on
FromDisplay == {"display", "pdf", "pause"}

\* C4 as stated: with a credential held, a performance call that fails by a
\* network error, a non-2xx status or a response missing the expected
\* fields returns None and never aborts the audit: the console report is
\* displayed and the PDF attempted, with performance reported as unavailable.
C4_AnyFailureReturnsNone ==
    PerfCallEnded(PerfFailureKinds \cup {"missing_fields"}) =>
        /\ (pc \in FromDisplay => ~perf.present /\ ~results.pagespeed_data.present)
        /\ (console.state = "full" => console.perfLine = "not_available")
        /\ (pdf.written => pdf.perfBlock = "not_available")
        /\ console.state # "partial"

\* C4 (amended): with a credential held, a performance call that fails by a
\* network error, a non-2xx status, an undecodable body or a body of the
\* wrong JSON shape returns None, and a console report or a PDF written
\* after it says that performance is not available; a JSON object that merely
\* lacks the expected fields is no failure: the result is present, with
\* score 0 for a missing score and "N/A" / 0 for a missing FCP audit.  In no
\* case does the call abort the audit: the next step is display_results.
C4_FailureReturnsNoneDefaultsOtherwise ==
    /\ (\A i \in DOMAIN log : log[i] \in PerfEvents => HasKey(api_key))
    /\ PerfCallEnded(PerfFailureKinds) =>
           /\ (pc \in FromDisplay =>
                  ~perf.present /\ ~results.pagespeed_data.present)
           /\ (console.state = "full" => console.perfLine = "not_available")
           /\ (pdf.written => pdf.perfBlock = "not_available")
    /\ PerfCallEnded({"missing_fields"}) =>
           /\ (pc \in FromDisplay =>
                  /\ results.pagespeed_data = perf
                  /\ perf.present
                  /\ (perf.performance_score = 0 \/ perf.fcp = "N/A")
                  /\ (perf.fcp = "N/A" <=> perf.fcp_numeric = 0))
           /\ (console.state = "full" => console.perfLine = "score")
           /\ (pdf.written => pdf.perfBlock = "score")
    /\ (log # <<>> /\ log[Len(log)] \in PerfEvents) =>
           /\ pc \in {"display", "terminated"}
           /\ lastMsg # "error_occurred"
           /\ (pc = "display" => results.assembled)

C4_Witness ==
    /\ PerfCallEnded(PerfFailureKinds)
    /\ HasKey(api_key)
    /\ pc = "pause"
    /\ console.state = "full"
    /\ console.perfLine = "not_available"
    /\ pdf.attempted

\* the types a block of the expected shape contributes: a JSON object (or
\* the objects of a JSON array) whose @type is a string
RECURSIVE ExpectedItemTypes(_)
ExpectedItemTypes(items) ==
    IF items = <<>> THEN {}
    ELSE (IF Head(items).kind = "object" /\ Head(items).tkind = "str"
          THEN {Head(items).tval} ELSE {})
         \cup ExpectedItemTypes(Tail(items))

ExpectedTypes(b) ==
    IF b.kind = "object" /\ b.tkind = "str" THEN {b.tval}
    ELSE IF b.kind = "array" THEN ExpectedItemTypes(b.items)
    ELSE {}

\* C5: a JSON-LD block that does not parse or does not have the expected
\* shape never raises out of check_schema_markup and never aborts the audit;
\* it adds nothing to the types, while json_ld_count counts it and
\* has_schema is true.
C5_MalformedJsonLdSkipped ==
    (pc \in {"analyze", "pagespeed", "display", "pdf", "pause"}
       /\ page.ok /\ page.jsonld # <<>>) =>
        LET sa == CheckSchema(page)
        IN  /\ ~sa.raised
            /\ sa.json_ld_count = Len(page.jsonld)
            /\ sa.has_schema
            /\ {t.tval : t \in sa.schema_types}
                   = UNION {ExpectedTypes(page.jsonld[i]) : i \in DOMAIN page.jsonld}
            /\ (pc = "display" => ~DisplayRaises(results))

\* C6: when PDF construction or writing raises, generate_pdf_report returns
\* False and nothing is written; the console report was displayed in full
\* before the PDF was attempted; the audit ends with the "completed but PDF
\* generation failed" warning, not with an error; from the pause that
\* follows, the session goes back to the menu (or ends on an interrupt).
C6_PdfFailureIsWarning ==
    /\ [](pdf.raised =>
            /\ ~pdf.written
            /\ console.state = "full"
            /\ Len(log) >= 2
            /\ log[Len(log) - 1] = "display"
            /\ log[Len(log)] = "pdf"
            /\ (pc = "pause" => lastMsg = "pdf_failed"))
    /\ [](lastMsg = "pdf_failed" => pc \in {"pause", "menu"} /\ pdf.raised)
    /\ [](pdf.attempted => console.state = "full" /\ InLog("display"))
    /\ [][pc = "pause" => pc' \in {"menu", "terminated"}]_vars

C6_Witness ==
    /\ pdf.raised
    /\ pc = "pause"
    /\ lastMsg = "pdf_failed"
    /\ console.state = "full"

\* C7: a stored credential stays held: api_key changes only in
\* get_api_key and only to a non-empty value, an empty entry leaves the
\* stored credential in place, and audits, invalid selections and errors
\* leave it unchanged.
C7_CredentialPersists ==
    /\ [][ /\ (api_key # <<>> => api_key' # <<>>)
           /\ (api_key' # api_key => pc = "apikey" /\ api_key' # <<>>)
           /\ (lastMsg' = "no_key" /\ pc = "apikey" => api_key' = api_key) ]_vars
    /\ [](everKey <=> api_key # <<>>)

C7_Witness ==
    /\ api_key = <<"k">>
    /\ pc = "menu"
    /\ lastMsg = "no_key"
    /\ log # <<>>

\* the states of the Auditing phase
Auditing ==
    {"url", "keyword", "fetch", "analyze", "pagespeed", "display", "pdf", "pause"}

\* C8: the session moves only Idle -> set credential -> Idle,
\* Idle -> Auditing -> Idle and to Terminated: '1', '2' and '3' are the only
\* selections that leave the menu, any other selection re-prompts, the
\* credential prompt and the audit come back to the menu, Terminated is
\* entered only by the selection '3' at the menu or by an interrupt, and
\* nothing happens after it.
C8_SessionTransitions ==
    [][ /\ pc # "terminated"
        /\ (pc = "menu" => pc' \in {"menu", "apikey", "url", "terminated"})
        /\ (pc = "menu" /\ pc' = "apikey" => choice' = <<"1">>)
        /\ (pc = "menu" /\ pc' = "url" => choice' = <<"2">>)
        /\ (pc = "menu" /\ choice' \notin {<<"1">>, <<"2">>, <<"3">>} =>
               pc' = "menu" \/ ended' = "interrupt")
        /\ (lastMsg' = "invalid_option" =>
               pc = "menu" /\ pc' = "menu"
               /\ choice' \notin {<<"1">>, <<"2">>, <<"3">>})
        /\ (pc = "apikey" => pc' \in {"menu", "terminated"})
        /\ (pc \in Auditing => pc' \in Auditing \cup {"menu", "terminated"})
        /\ (pc' = "terminated" =>
               \/ (pc = "menu" /\ choice' = <<"3">> /\ ended' = "exit")
               \/ ended' = "interrupt")
        /\ (pc' # "terminated" => ended' = "no") ]_vars

C8_Witness ==
    /\ pc = "terminated"
    /\ ended = "exit"
    /\ choice = <<"3">>
    /\ log # <<>>

\* the wrapper has run on a text over its threshold
Wrapped == pc = "wrapped" /\ Len(wIn.text) > wIn.threshold

\* the words of the emitted lines, line after line
EmittedWords == Flatten([i \in DOMAIN wOut |-> Split(wOut[i])])

\* no word is split or dropped, and the words keep their order
WordsKept == EmittedWords = Split(wIn.text)

\* C9 as stated: for every sequence of words, no emitted line is longer than
\* the budget (65 for title and meta description, 55 for an H1 text), every
\* word is whole on exactly one line, and the order is kept.
C9_NoLineOverBudget ==
    Wrapped =>
        /\ \A i \in DOMAIN wOut : Len(wOut[i]) <= wIn.budget
        /\ WordsKept

\* C9 (amended): every word is whole on exactly one line and the order is
\* kept; an emitted line is shorter than the budget unless it consists of a
\* single word that is itself at least as long as the budget, which is
\* emitted alone and unsplit (preceded by an empty line when it is the first
\* word of the text).
C9_LineUnderBudgetOrSingleLongWord ==
    Wrapped =>
        /\ WordsKept
        /\ \A i \in DOMAIN wOut :
              \/ Len(wOut[i]) < wIn.budget
              \/ /\ Len(Split(wOut[i])) = 1
                 /\ Split(wOut[i])[1] = wOut[i]
        /\ \A i \in DOMAIN wOut :
              wOut[i] = <<>> =>
                  i = 1 /\ Len(Split(wIn.text)[1]) >= wIn.budget
        /\ \A i \in DOMAIN wOut : wOut[i] = Join(Split(wOut[i]))

C9_Witness ==
    /\ Wrapped
    /\ Len(wOut) >= 2
    /\ \E i \in DOMAIN wOut : Len(Split(wOut[i])) >= 2
    /\ \E i \in DOMAIN wOut : Len(wOut[i]) >= wIn.budget

\* the host with a leading "www." removed and nothing else changed
LeadingWwwStripped(host) ==
    IF Len(host) >= 4 /\ SubSeq(host, 1, 4) = WwwDot
    THEN SubSeq(host, 5, Len(host))
    ELSE host

\* C10: the PDF of an audit is written to SEO_Audit_Report_<domain>.pdf,
\* where <domain> is the host of the URL with only a leading "www." removed:
\* a host without that prefix is used unchanged and a "www." elsewhere in
\* the host is kept.
C10_FilenameStripsLeadingWww ==
    (pc = "pause" /\ pdf.written) =>
        pdf.filename = [prefix |-> "SEO_Audit_Report_",
                        domain |-> LeadingWwwStripped(Netloc(url)),
                        suffix |-> ".pdf"]

\* the positions of the meta description elements of the shared document
MetaAt == {i \in DOMAIN xSoup : xSoup[i].tag = "meta" /\ xSoup[i].name = "description"}

\* the first of them
FirstMeta == xSoup[CHOOSE i \in MetaAt : \A j \in MetaAt : i <= j]

\* the first meta description is absent, has no content attribute, or has
\* a content that is empty once trimmed
NoUsableMeta ==
    \/ MetaAt = {}
    \/ ~FirstMeta.hasAttr
    \/ Strip(FirstMeta.attr) = <<>>

\* C11: extract_meta_description returns the sentinel whenever the first
\* meta description element is absent, has no content attribute, or has a
\* content that is empty once trimmed, and the trimmed content otherwise;
\* so the meta description it returns is never the empty string.
C11_MetaDescriptionNeverEmpty ==
    xLast.fn = "title_meta" =>
        /\ (NoUsableMeta => xLast.val.meta_description = NoMetaText)
        /\ (~NoUsableMeta => xLast.val.meta_description = Strip(FirstMeta.attr))
        /\ xLast.val.meta_description # <<>>

\* the positions of the <h1> elements of the shared document
H1At == {i \in DOMAIN xSoup : xSoup[i].tag = "h1"}

\* count is the number of <h1> elements and texts holds their trimmed
\* texts in document order
H1CountAndTexts ==
    /\ xLast.val.count = Cardinality(H1At)
    /\ Len(xLast.val.texts) = Cardinality(H1At)
    /\ \A i \in H1At :
        xLast.val.texts[Cardinality({j \in H1At : j <= i})] = Strip(xSoup[i].text)

\* C12 as stated: count is the number of <h1> elements, texts are in
\* document order, and status is exactly "Missing" iff count = 0, exactly
\* "Good" iff count = 1 and exactly "Warning" iff count > 1, nothing else.
C12_StatusIsOneOfThree ==
    xLast.fn = "h1_analysis" =>
        /\ H1CountAndTexts
        /\ xLast.val.status \in {"Missing", "Good", "Warning"}
        /\ (xLast.val.status = "Missing" <=> xLast.val.count = 0)
        /\ (xLast.val.status = "Good" <=> xLast.val.count = 1)
        /\ (xLast.val.status = "Warning" <=> xLast.val.count > 1)

\* C12: analyze_h1_tags returns count equal to the number of <h1>
\* elements, their trimmed texts in document order, and a status that is
\* "Missing" iff count = 0, "Good" iff count = 1, and the warning sentence
\* "Warning | It is generally recommended to only use one H1 Tag on a
\* page." iff count > 1, and nothing else.
C12_StatusFollowsCount ==
    xLast.fn = "h1_analysis" =>
        /\ H1CountAndTexts
        /\ xLast.val.status \in {"Missing", "Good", WarningText}
        /\ (xLast.val.status = "Missing" <=> xLast.val.count = 0)
        /\ (xLast.val.status = "Good" <=> xLast.val.count = 1)
        /\ (xLast.val.status = WarningText <=> xLast.val.count > 1)

\* analyze_h1_tags has run on a document with two different <h1> elements
C12_Witness ==
    /\ xLast.fn = "h1_analysis"
    /\ xLast.val.count = 2
    /\ xLast.val.texts[1] # xLast.val.texts[2]
    /\ xLast.val.status # "Good"

\* what an extractor returns on the page as it was fetched
FirstPass(fn) ==
    LET fetched == Parse(xHtml)
    IN  IF fn = "title_meta"
        THEN [title_tag |-> ExtractTitle(SoupPage(fetched)),
              meta_description |-> ExtractMetaDescription(fetched)]
        ELSE IF fn = "keyword_frequency" THEN CalcKeywordFrequency(xHtml, xKeyword)
        ELSE IF fn = "h1_analysis" THEN AnalyzeH1(fetched)
        ELSE IF fn = "image_analysis" THEN AnalyzeImages(fetched)
        ELSE CheckSchema(SoupPage(fetched))

\* the JSON-LD scripts in the raw body
JsonLdInHtml ==
    {i \in DOMAIN xHtml :
        xHtml[i].k = "open" /\ xHtml[i].el.tag = "script" /\ xHtml[i].el.ld}

====
